---- MODULE Spec2Model ----
(***************************************************************************)
(* Model of astro-dynamic-component's Vite plugin (src/src/vite-plugin.mjs) *)
(* Strings are sequences of one-character strings, so that slicing,        *)
(* searching and regular-expression matching are computed as the code      *)
(* computes them.                                                          *)
(***************************************************************************)
EXTENDS Integers, Sequences, FiniteSets, Bags, TLC

(***************************************************************************)
(* JavaScript string primitives                                            *)
(***************************************************************************)

\* String.prototype.slice(from) / slice(from, to), 0-based, to exclusive
Slice(s, from, to) == SubSeq(s, from + 1, to)

SliceFrom(s, from) == SubSeq(s, from + 1, Len(s))

\* String.prototype.startsWith
StartsWith(s, p) == Len(p) <= Len(s) /\ SubSeq(s, 1, Len(p)) = p

\* String.prototype.endsWith
EndsWith(s, p) == Len(p) <= Len(s) /\ SubSeq(s, Len(s) - Len(p) + 1, Len(s)) = p

\* String.prototype.indexOf(ch): 0-based index of the first ch, -1 if none
IndexOf(s, ch) ==
    IF \E i \in 1..Len(s) : s[i] = ch
    THEN (CHOOSE i \in 1..Len(s) : s[i] = ch /\ \A j \in 1..(i - 1) : s[j] # ch) - 1
    ELSE -1

\* String.prototype.lastIndexOf(ch): 0-based index of the last ch, -1 if none
LastIndexOf(s, ch) ==
    IF \E i \in 1..Len(s) : s[i] = ch
    THEN (CHOOSE i \in 1..Len(s) : s[i] = ch /\ \A j \in (i + 1)..Len(s) : s[j] # ch) - 1
    ELSE -1

\* String.prototype.includes(ch)
Includes(s, ch) == \E i \in 1..Len(s) : s[i] = ch

\* String.prototype.split(ch): the pieces between the occurrences of ch
RECURSIVE Split(_, _)
Split(s, ch) ==
    IF IndexOf(s, ch) = -1 THEN <<s>>
    ELSE <<Slice(s, 0, IndexOf(s, ch))>> \o Split(SliceFrom(s, IndexOf(s, ch) + 1), ch)

\* Array.prototype.join(sep)
RECURSIVE Join(_, _)
Join(parts, sep) ==
    IF Len(parts) = 0 THEN <<>>
    ELSE IF Len(parts) = 1 THEN parts[1]
    ELSE parts[1] \o sep \o Join(Tail(parts), sep)

\* Array.prototype.map
RECURSIVE Map(_, _)
Map(Op(_), xs) == IF Len(xs) = 0 THEN <<>> ELSE <<Op(Head(xs))>> \o Map(Op, Tail(xs))

Letters ==
    {"a","b","c","d","e","f","g","h","i","j","k","l","m","n","o","p","q","r","s","t","u","v","w","x","y","z",
     "A","B","C","D","E","F","G","H","I","J","K","L","M","N","O","P","Q","R","S","T","U","V","W","X","Y","Z"}

Digits == {"0","1","2","3","4","5","6","7","8","9"}

\* the value null / undefined: a value that no string equals
Null == <<"null">>

\* JavaScript truthiness of a string-or-null value
Truthy(x) == x # Null /\ x # <<>>

(***************************************************************************)
(* Module-level constants and helpers                                      *)
(***************************************************************************)

DC_PREFIX == <<"d","c",":">>

\* crypto md5 digest, first 8 hex characters.  The digest is modelled as a
\* collision-free encoding of the input into characters that are legal in a
\* file name and in an identifier: letters and digits stand for themselves,
\* every other character for an escape.
Md5Char(c) ==
    IF c \in Letters \cup Digits THEN <<c>>
    ELSE IF c = "/" THEN <<"_","s">>
    ELSE IF c = "." THEN <<"_","d">>
    ELSE IF c = "," THEN <<"_","c">>
    ELSE IF c = "*" THEN <<"_","a">>
    ELSE IF c = ":" THEN <<"_","k">>
    ELSE IF c = "_" THEN <<"_","_">>
    ELSE <<"_","x">>

RECURSIVE Md5Enc(_)
Md5Enc(str) == IF Len(str) = 0 THEN <<>> ELSE Md5Char(Head(str)) \o Md5Enc(Tail(str))

md5(str) == Md5Enc(str)

\* p.replace(/\\/g, '/')
normalizePath(p) == Map(LAMBDA c : IF c = "\\" THEN "/" ELSE c, p)

\* the glob special characters of getGlobBase
globChars == {"*", "?", "[", "{"}

\* mutant: only the star counts as a glob special character
FirstGlobIndex_starOnly(pattern) ==
    IF \E i \in 1..Len(pattern) : pattern[i] = "*"
    THEN (CHOOSE i \in 1..Len(pattern) :
            pattern[i] = "*" /\ \A j \in 1..(i - 1) : pattern[j] # "*") - 1
    ELSE Len(pattern)

\* index of the first glob special character, pattern.length if none
FirstGlobIndex(pattern) ==
    IF \E i \in 1..Len(pattern) : pattern[i] \in globChars
    THEN (CHOOSE i \in 1..Len(pattern) :
            pattern[i] \in globChars /\ \A j \in 1..(i - 1) : pattern[j] \notin globChars) - 1
    ELSE Len(pattern)

getGlobBase(pattern) ==
    LET base == Slice(pattern, 0, FirstGlobIndex(pattern))
        lastSlash == LastIndexOf(base, "/")
    IN  IF lastSlash # -1 THEN Slice(base, 0, lastSlash) ELSE <<".">>

(***************************************************************************)
(* parseDcImport                                                           *)
(***************************************************************************)

\* the second alternative group of the regular expression of parseDcImport,
\* (\.{0,2}\/.*|[a-zA-Z@].*)$ : the text starts with "/", "./" or "../", or
\* with a letter or "@" (no string of the model holds a line terminator)
PathPart(rest) ==
    \/ StartsWith(rest, <<"/">>)
    \/ StartsWith(rest, <<".","/">>)
    \/ StartsWith(rest, <<".",".","/">>)
    \/ (Len(rest) >= 1 /\ rest[1] \in Letters \cup {"@"})

\* mutant: a greedy first group, which stops at the last such colon
PathMatchIndex_greedy(w) ==
    IF \E i \in 1..Len(w) : w[i] = ":" /\ PathPart(SliceFrom(w, i))
    THEN (CHOOSE i \in 1..Len(w) :
            /\ w[i] = ":" /\ PathPart(SliceFrom(w, i))
            /\ \A j \in (i + 1)..Len(w) : ~(w[j] = ":" /\ PathPart(SliceFrom(w, j)))) - 1
    ELSE -1

\* withoutPrefix.match(/^(.*?):(\.{0,2}\/.*|[a-zA-Z@].*)$/): the lazy first
\* group stops at the first colon after which the path part matches;
\* the result is that colon's 0-based index, -1 when the match fails
PathMatchIndex(w) ==
    IF \E i \in 1..Len(w) : w[i] = ":" /\ PathPart(SliceFrom(w, i))
    THEN (CHOOSE i \in 1..Len(w) :
            /\ w[i] = ":" /\ PathPart(SliceFrom(w, i))
            /\ \A j \in 1..(i - 1) : ~(w[j] = ":" /\ PathPart(SliceFrom(w, j)))) - 1
    ELSE -1

\* `client:${name}="${value}"` with [name, value] = clientPart.split('=')
KeyValueDirective(clientPart) ==
    LET parts == Split(clientPart, "=")
    IN  <<"c","l","i","e","n","t",":">> \o parts[1] \o <<"=","\"">> \o parts[2] \o <<"\"">>

\* mutant: the configured default directive is ignored, load is used
parseDcImport_fixedDefault(source, defaultDirective) ==
    LET withoutPrefix == SliceFrom(source, Len(DC_PREFIX))
        m == PathMatchIndex(withoutPrefix)
        clientPart == Slice(withoutPrefix, 0, m)
        pattern == SliceFrom(withoutPrefix, m + 1)
    IN  IF m # -1
        THEN IF clientPart = <<>>
             THEN [clientDirective |-> Null, pattern |-> pattern]
             ELSE IF Includes(clientPart, "=")
             THEN [clientDirective |-> KeyValueDirective(clientPart), pattern |-> pattern]
             ELSE [clientDirective |-> <<"c","l","i","e","n","t",":">> \o clientPart,
                   pattern |-> pattern]
        ELSE [clientDirective |-> <<"c","l","i","e","n","t",":","l","o","a","d">>, pattern |-> withoutPrefix]

\* mutant: an empty directive part falls back to the default directive
parseDcImport_emptyIsDefault(source, defaultDirective) ==
    LET withoutPrefix == SliceFrom(source, Len(DC_PREFIX))
        m == PathMatchIndex(withoutPrefix)
        clientPart == Slice(withoutPrefix, 0, m)
        pattern == SliceFrom(withoutPrefix, m + 1)
    IN  IF m # -1
        THEN IF clientPart = <<>>
             THEN [clientDirective |-> <<"c","l","i","e","n","t",":">> \o defaultDirective,
                   pattern |-> pattern]
             ELSE IF Includes(clientPart, "=")
             THEN [clientDirective |-> KeyValueDirective(clientPart), pattern |-> pattern]
             ELSE [clientDirective |-> <<"c","l","i","e","n","t",":">> \o clientPart,
                   pattern |-> pattern]
        ELSE [clientDirective |-> <<"c","l","i","e","n","t",":">> \o defaultDirective,
              pattern |-> withoutPrefix]

parseDcImport(source, defaultDirective) ==
    LET withoutPrefix == SliceFrom(source, Len(DC_PREFIX))
        m == PathMatchIndex(withoutPrefix)
        clientPart == Slice(withoutPrefix, 0, m)
        pattern == SliceFrom(withoutPrefix, m + 1)
    IN  IF m # -1
        THEN IF clientPart = <<>>
             THEN [clientDirective |-> Null, pattern |-> pattern]
             ELSE IF Includes(clientPart, "=")
             THEN [clientDirective |-> KeyValueDirective(clientPart), pattern |-> pattern]
             ELSE [clientDirective |-> <<"c","l","i","e","n","t",":">> \o clientPart,
                   pattern |-> pattern]
        ELSE [clientDirective |-> <<"c","l","i","e","n","t",":">> \o defaultDirective,
              pattern |-> withoutPrefix]

(***************************************************************************)
(* node:path (POSIX)                                                       *)
(***************************************************************************)

\* process.cwd()
Cwd == <<"/","p">>

IsAbsolute(p) == Len(p) >= 1 /\ p[1] = "/"

\* resolution of "." and ".." and empty segments, left to right
RECURSIVE NormSegs(_, _, _)
NormSegs(segs, acc, abs) ==
    IF Len(segs) = 0 THEN acc
    ELSE LET h == Head(segs) IN
         IF h = <<>> \/ h = <<".">> THEN NormSegs(Tail(segs), acc, abs)
         ELSE IF h = <<".",".">>
         THEN IF Len(acc) > 0 /\ acc[Len(acc)] # <<".",".">>
              THEN NormSegs(Tail(segs), SubSeq(acc, 1, Len(acc) - 1), abs)
              ELSE IF abs THEN NormSegs(Tail(segs), acc, abs)
              ELSE NormSegs(Tail(segs), Append(acc, h), abs)
         ELSE NormSegs(Tail(segs), Append(acc, h), abs)

PathSegs(p) == NormSegs(Split(p, "/"), <<>>, IsAbsolute(p))

\* path.normalize
PathNormalize(p) ==
    LET body == Join(PathSegs(p), <<"/">>)
        trail == IF Len(p) >= 1 /\ p[Len(p)] = "/" /\ Len(body) > 0 THEN <<"/">> ELSE <<>>
    IN  IF Len(p) = 0 THEN <<".">>
        ELSE IF IsAbsolute(p) THEN <<"/">> \o body \o trail
        ELSE IF Len(body) = 0 THEN (IF p[Len(p)] = "/" THEN <<".","/">> ELSE <<".">>)
        ELSE body \o trail

\* path.join(a, b)
PathJoin(a, b) ==
    IF Len(a) = 0 THEN PathNormalize(b)
    ELSE IF Len(b) = 0 THEN PathNormalize(a)
    ELSE PathNormalize(a \o <<"/">> \o b)

\* path.resolve(a, b): b when it is absolute, otherwise b below a (below the
\* working directory when a is relative too); no trailing slash
PathResolve(a, b) ==
    LET base == IF IsAbsolute(a) THEN a ELSE Cwd \o <<"/">> \o a
        full == IF IsAbsolute(b) THEN b ELSE base \o <<"/">> \o b
    IN  <<"/">> \o Join(PathSegs(full), <<"/">>)

\* path.dirname
PathDirname(p) ==
    LET q == IF Len(p) > 1 /\ p[Len(p)] = "/" THEN Slice(p, 0, Len(p) - 1) ELSE p
        i == LastIndexOf(q, "/")
    IN  IF i = -1 THEN <<".">>
        ELSE IF i = 0 THEN <<"/">>
        ELSE Slice(q, 0, i)

\* path.basename
PathBasename(p) ==
    LET q == IF Len(p) > 1 /\ p[Len(p)] = "/" THEN Slice(p, 0, Len(p) - 1) ELSE p
    IN  SliceFrom(q, LastIndexOf(q, "/") + 1)

\* length of the longest common prefix of two segment lists
RECURSIVE CommonLen(_, _)
CommonLen(a, b) ==
    IF Len(a) = 0 \/ Len(b) = 0 THEN 0
    ELSE IF Head(a) # Head(b) THEN 0
    ELSE 1 + CommonLen(Tail(a), Tail(b))

\* path.relative(from, to)
PathRelative(from, to) ==
    LET f == PathSegs(PathResolve(Cwd, from))
        t == PathSegs(PathResolve(Cwd, to))
        k == CommonLen(f, t)
        ups == Map(LAMBDA seg : <<".",".">>, SubSeq(f, k + 1, Len(f)))
    IN  Join(ups \o SubSeq(t, k + 1, Len(t)), <<"/">>)

(***************************************************************************)
(* Ordering of strings (Array.prototype.sort without a comparator)         *)
(***************************************************************************)

\* the printable ASCII characters of the model's strings in code-unit order
Ascii ==
    <<" ","!","\"","#","$","%","&","'","(",")","*","+",",","-",".","/",
      "0","1","2","3","4","5","6","7","8","9",":",";","<","=",">","?","@",
      "A","B","C","D","E","F","G","H","I","J","K","L","M","N","O","P","Q","R","S","T","U","V","W","X","Y","Z",
      "[","\\","]","^","_",
      "a","b","c","d","e","f","g","h","i","j","k","l","m","n","o","p","q","r","s","t","u","v","w","x","y","z",
      "{","|","}","~">>

CharCode(c) == CHOOSE i \in 1..Len(Ascii) : Ascii[i] = c

\* a sorts strictly before b
RECURSIVE StrLess(_, _)
StrLess(a, b) ==
    IF Len(b) = 0 THEN FALSE
    ELSE IF Len(a) = 0 THEN TRUE
    ELSE IF Head(a) = Head(b) THEN StrLess(Tail(a), Tail(b))
    ELSE CharCode(Head(a)) < CharCode(Head(b))

RECURSIVE InsertSorted(_, _)
InsertSorted(x, sorted) ==
    IF Len(sorted) = 0 THEN <<x>>
    ELSE IF StrLess(x, Head(sorted)) THEN <<x>> \o sorted
    ELSE <<Head(sorted)>> \o InsertSorted(x, Tail(sorted))

\* Array.prototype.sort()
RECURSIVE Sort(_)
Sort(xs) == IF Len(xs) = 0 THEN <<>> ELSE InsertSorted(Head(xs), Sort(Tail(xs)))

(***************************************************************************)
(* The environment: files on disk, alias tables, importers                 *)
(***************************************************************************)

\* the component files that exist on disk
FileSystem ==
    { <<"/","p","/","s","r","c","/","c","/","A",".","v","u","e">>, <<"/","p","/","s","r","c","/","c","/","A",".","a","s","t","r","o">> }

\* viteConfig before configResolved has run (null)
NoConfig == <<>>

\* the resolved Vite configurations that configResolved may receive
ViteConfigs ==
    { [root |-> <<"/","p">>,
       alias |-> << [find |-> <<"@">>, replacement |-> <<"/","p","/","s","r","c">>] >>] }

\* the result of getTsconfig(cwd): the path-mapping file found from cwd,
\* as a one-element list (the empty list when there is none)
TsConfig ==
  <<[path |-> <<"/","p","/","t","s","c","o","n","f","i","g",".","j","s","o","n">>,
     baseUrl |-> <<".">>,
     paths |-> << [pattern |-> <<"~","/","*">>, mappings |-> << <<"l","i","b","/","*">> >>] >>] >>

\* the matching of one path against one pattern by fast-glob: a star stands
\* for any run of characters other than the slash, a question mark for one
\* such character, every other character for itself
RECURSIVE GlobMatch(_, _)
GlobMatch(pat, str) ==
    IF Len(pat) = 0 THEN Len(str) = 0
    ELSE IF Head(pat) = "*"
    THEN \/ GlobMatch(Tail(pat), str)
         \/ (Len(str) > 0 /\ Head(str) # "/" /\ GlobMatch(pat, Tail(str)))
    ELSE IF Head(pat) = "?"
    THEN Len(str) > 0 /\ Head(str) # "/" /\ GlobMatch(Tail(pat), Tail(str))
    ELSE Len(str) > 0 /\ Head(str) = Head(pat) /\ GlobMatch(Tail(pat), Tail(str))

\* the set of files fg(resolvedPattern, {absolute, onlyFiles}) yields
Matched(resolvedPattern) == { f \in FileSystem : GlobMatch(resolvedPattern, f) }

\* every order in which the matcher may list a set of files
Listings(fileSet) ==
    { l \in [1..Cardinality(fileSet) -> fileSet] : \A f \in fileSet : \E i \in DOMAIN l : l[i] = f }

(***************************************************************************)
(* resolveAlias                                                            *)
(***************************************************************************)

\* s.replace(/\/?\*$/, ''): a trailing star and a slash before it are removed
StripTrailingStar(s) ==
    IF Len(s) >= 1 /\ s[Len(s)] = "*"
    THEN IF Len(s) >= 2 /\ s[Len(s) - 1] = "/" THEN Slice(s, 0, Len(s) - 2)
         ELSE Slice(s, 0, Len(s) - 1)
    ELSE s

\* mutant: the last alias whose find is a prefix of aliasPath wins
RECURSIVE ViteAliasLookup_lastMatch(_, _)
ViteAliasLookup_lastMatch(aliasPath, aliasArray) ==
    IF Len(aliasArray) = 0 THEN Null
    ELSE LET alias == aliasArray[Len(aliasArray)] IN
         IF alias.find # <<>> /\ StartsWith(aliasPath, alias.find)
         THEN alias.replacement \o SliceFrom(aliasPath, Len(alias.find))
         ELSE ViteAliasLookup_lastMatch(aliasPath, SubSeq(aliasArray, 1, Len(aliasArray) - 1))

\* first tier: the first alias whose find is a prefix of aliasPath
RECURSIVE ViteAliasLookup(_, _)
ViteAliasLookup(aliasPath, aliasArray) ==
    IF Len(aliasArray) = 0 THEN Null
    ELSE LET alias == Head(aliasArray) IN
         IF alias.find = <<>> THEN ViteAliasLookup(aliasPath, Tail(aliasArray))
         ELSE IF StartsWith(aliasPath, alias.find)
         THEN alias.replacement \o SliceFrom(aliasPath, Len(alias.find))
         ELSE ViteAliasLookup(aliasPath, Tail(aliasArray))

\* second tier: the first path mapping whose prefix starts aliasPath and
\* that has a first replacement target
RECURSIVE TsPathsLookup(_, _, _)
TsPathsLookup(aliasPath, paths, baseUrlResolved) ==
    IF Len(paths) = 0 THEN Null
    ELSE LET prefix == StripTrailingStar(Head(paths).pattern)
             mappings == Head(paths).mappings
         IN  IF StartsWith(aliasPath, prefix) /\ Len(mappings) > 0 /\ mappings[1] # <<>>
             THEN PathResolve(baseUrlResolved,
                              StripTrailingStar(mappings[1]) \o SliceFrom(aliasPath, Len(prefix)))
             ELSE TsPathsLookup(aliasPath, Tail(paths), baseUrlResolved)

\* compilerOptions.baseUrl || '.' (an absent baseUrl is the empty text)
BaseUrl(tsconfig) == IF tsconfig.baseUrl = <<>> THEN <<".">> ELSE tsconfig.baseUrl

resolveAlias(aliasPath, config, tsconfig) ==
    LET first == IF config # NoConfig THEN ViteAliasLookup(aliasPath, config[1].alias) ELSE Null
    IN  IF first # Null THEN first
        ELSE IF tsconfig # <<>>
        THEN TsPathsLookup(aliasPath, tsconfig[1].paths,
                           PathResolve(PathDirname(tsconfig[1].path), BaseUrl(tsconfig[1])))
        ELSE Null

(***************************************************************************)
(* generateVirtualAstroComponent                                           *)
(***************************************************************************)

\* pattern.replace(/\/?\*.*$/, ''): everything from the first star, and a
\* slash right before it, is removed
PatternDir(pattern) ==
    LET i == IndexOf(pattern, "*")
    IN  IF i = -1 THEN pattern
        ELSE IF i >= 1 /\ pattern[i] = "/" THEN Slice(pattern, 0, i - 1)
        ELSE Slice(pattern, 0, i)

\* the import path of one component
ImportPath(pattern, baseDir, c, isPathAlias, srcDirAbsolute) ==
    IF isPathAlias
    THEN PatternDir(pattern) \o <<"/">> \o normalizePath(PathRelative(baseDir, c.filePath))
    ELSE <<".",".","/">> \o normalizePath(PathRelative(srcDirAbsolute, c.filePath))

\* mutant: the directive is attached to .astro components too
ClientAttr_ignoringAstro(c, clientDirective) ==
    IF ~Truthy(clientDirective) THEN <<>> ELSE <<" ">> \o clientDirective

\* the directive attribute of one component's conditional render
ClientAttr(c, clientDirective) ==
    IF c.isAstro \/ ~Truthy(clientDirective) THEN <<>> ELSE <<" ">> \o clientDirective

\* The generated source text is kept as the parts the template is filled
\* with: the import statements, the members of the comp type and the
\* conditional renders, each in the order of the component list.
generateVirtualAstroComponent(pattern, baseDir, clientDirective, components, isPathAlias, srcDirAbsolute) ==
    [imports |-> Map(LAMBDA c :
                    [importName |-> c.importName,
                     importPath |-> ImportPath(pattern, baseDir, c, isPathAlias, srcDirAbsolute)],
                    components),
     compTypes |-> Map(LAMBDA c : c.compName, components),
     conditionalRenders |-> Map(LAMBDA c :
                    [compName |-> c.compName,
                     importName |-> c.importName,
                     clientAttr |-> ClientAttr(c, clientDirective)],
                    components)]

(***************************************************************************)
(* createDynamicComponentVitePlugin: the plugin instance                   *)
(***************************************************************************)

\* options.srcDir as the integration passes it (fileURLToPath(config.srcDir))
SrcDir == <<"/","p","/","s","r","c","/">>

\* the values of options.defaultClientDirective the parser is applied with
DefaultDirectives == { <<"l","o","a","d">>, <<"i","d","l","e">> }

\* the value of options.defaultClientDirective the plugin instance is created
\* with: the one the integration's documentation configures instead of 'load'
ConfiguredDirectives == { <<"i","d","l","e">> }

\* relativePath.replace(/\.[^.]+$/, ''): the last dot and what follows it
\* are removed when something follows it
StripExtension(relativePath) ==
    LET i == LastIndexOf(relativePath, ".")
    IN  IF i # -1 /\ i < Len(relativePath) - 1 THEN Slice(relativePath, 0, i) ELSE relativePath

\* one entry of the component list
Component(filePath, baseDir) ==
    LET relativePath == normalizePath(PathRelative(baseDir, filePath))
    IN  [importName |-> <<"C","o","m","_">> \o md5(relativePath),
         compName |-> StripExtension(relativePath),
         filePath |-> filePath,
         isAstro |-> EndsWith(filePath, <<".","a","s","t","r","o">>)]

\* mutant: the relative paths are joined in listing order, without the sort
RelativePaths_unsorted(files, srcDirAbsolute) ==
    Map(LAMBDA f : normalizePath(PathRelative(srcDirAbsolute, f)), files)

\* relativePaths: the srcDir-relative paths of the listed files, sorted
RelativePaths(files, srcDirAbsolute) ==
    Sort(Map(LAMBDA f : normalizePath(PathRelative(srcDirAbsolute, f)), files))

\* the hash of the sorted, comma-joined relative paths
FilesHash(files, srcDirAbsolute) == md5(Join(RelativePaths(files, srcDirAbsolute), <<",">>))

\* path.resolve(projectRoot, srcDir, '_generate_', `_virtual_dc_${hash}.astro`)
VirtualFilePath(root, hash) ==
    PathResolve(PathResolve(root, SrcDir),
                <<"_","g","e","n","e","r","a","t","e","_","/","_","v","i","r","t","u","a","l","_","d","c","_">> \o hash \o <<".","a","s","t","r","o">>)

\* the (source, importer) pairs the host calls resolveId with
Calls ==
    { << <<"d","c",":","l","o","a","d",":",".","/","c","/","*",".","*">>, <<"/","p","/","s","r","c","/","x",".","a","s","t","r","o">> >>,
      << <<"d","c",":","i","d","l","e",":",".","/","c","/","*",".","*">>, <<"/","p","/","s","r","c","/","z",".","a","s","t","r","o">> >>,
      << <<"d","c",":",".","/","c","/","*",".","*">>, <<"/","p","/","s","r","c","/","x",".","a","s","t","r","o">> >>,
      << <<"d","c",":","l","o","a","d",":","@","/","c","/","*",".","*">>, <<"/","p","/","s","r","c","/","z",".","a","s","t","r","o">> >>,
      << <<"d","c",":","l","o","a","d",":",".","/","*","/","*",".","*">>, <<"/","p","/","s","r","c","/","x",".","a","s","t","r","o">> >>,
      << <<"d","c",":",":",".","/","c","/","*",".","a","s","t","r","o">>, <<"/","p","/","s","r","c","/","x",".","a","s","t","r","o">> >>,
      << <<"d","c",":","l","o","a","d",":",".","/","c","/","*",".","*">>, Null >>,
      << <<"d","c",":","l","o","a","d",":","x","/","*",".","v","u","e">>, <<"/","p","/","s","r","c","/","x",".","a","s","t","r","o">> >>,
      << <<"d","c",":","l","o","a","d",":",".","/","n","/","*",".","v","u","e">>, <<"/","p","/","s","r","c","/","x",".","a","s","t","r","o">> >>,
      << <<".","/","q",".","j","s">>, <<"/","p","/","s","r","c","/","x",".","a","s","t","r","o">> >> }

\* the module ids the host calls load with: the identity of every set of
\* files (not every set is matched by a pattern) and a module that is not
\* a virtual one
LoadIds ==
    { VirtualFilePath(Cwd, FilesHash(l, PathResolve(Cwd, SrcDir))) :
        l \in UNION { Listings(fs) : fs \in (SUBSET FileSystem) \ {{}} } }
    \cup { <<"/","p","/","s","r","c","/","q",".","j","s">> }

\* the largest number of resolveId calls suspended at the file matching
MaxInFlight == 2

\* the inputs the parser is applied to on its own: the prefix, a directive
\* keyword, a colon and a pattern, under a default directive
ParseKeywords == { <<"l","o","a","d">>, <<"i","d","l","e">>, <<"v","i","s","i","b","l","e">>, <<"x">> }

ParsePatterns ==
    { <<".","/","c","/","*",".","v","u","e">>, <<".",".","/","c","/","*",".","v","u","e">>, <<"/","c","/","*",".","v","u","e">>, <<"@","/","c","/","*",".","v","u","e">>, <<"l","i","b","/","*",".","v","u","e">>,
      <<".","/","a",":","b","/","*",".","v","u","e">>, <<"*",".","v","u","e">>, <<"*","*","/","*",".","j","s","x">>, <<"~","/","c","/","*",".","v","u","e">> }

VARIABLES
    defaultClientDirective,  \* options.defaultClientDirective
    viteConfig,              \* the stored Vite config, NoConfig before configResolved
    projectRoot,             \* the project root
    codeCache,               \* virtualFilePath -> generated code
    pending,                 \* the resolveId calls suspended at `await fg(...)`
    result,                  \* what the last finished resolveId or load call returned
    returns,                 \* history: the successful resolveId calls
    synthesized,             \* history: how often code was generated per identity
    fnInput,                 \* the input a function is applied to on its own
    fnOutput                 \* what it returned, <<>> before the application

pluginVars == <<defaultClientDirective, viteConfig, projectRoot, codeCache, pending, result,
                returns, synthesized>>

fnVars == <<fnInput, fnOutput>>

vars == <<pluginVars, fnVars>>

InitPlugin(directives) ==
    /\ defaultClientDirective \in directives
    /\ viteConfig = NoConfig
    /\ projectRoot = Cwd
    /\ codeCache = <<>>
    /\ pending = EmptyBag
    /\ result = [op |-> "none"]
    /\ returns = {}
    /\ synthesized = <<>>

Init ==
    /\ InitPlugin(ConfiguredDirectives)
    /\ fnInput = [fn |-> "none"]
    /\ fnOutput = <<>>

\* configResolved(config)
configResolved(config) ==
    /\ viteConfig' = <<config>>
    /\ projectRoot' = config.root
    /\ UNCHANGED <<defaultClientDirective, codeCache, pending, result, returns, synthesized>>
    /\ UNCHANGED fnVars

\* the listed files as a set
Range(files) == { files[i] : i \in DOMAIN files }

\* !pattern.startsWith('./') && !pattern.startsWith('../') && !pattern.startsWith('/')
IsPathAlias(pattern) ==
    /\ ~StartsWith(pattern, <<".","/">>)
    /\ ~StartsWith(pattern, <<".",".","/">>)
    /\ ~StartsWith(pattern, <<"/">>)

\* the locals of resolveId at `await fg(resolvedPattern, ...)`; resolvedBase
\* is Null when the alias of an alias pattern cannot be resolved
ResolveLocals(source, importer, defaultDirective, config) ==
    LET parsed == parseDcImport(source, defaultDirective)
        pattern == parsed.pattern
        isPathAlias == IsPathAlias(pattern)
        patternBase == getGlobBase(pattern)
        resolvedBase == IF isPathAlias THEN resolveAlias(patternBase, config, TsConfig) ELSE Null
        importerDir == PathDirname(importer)
    IN  [source |-> source,
         importer |-> importer,
         pattern |-> pattern,
         clientDirective |-> parsed.clientDirective,
         isPathAlias |-> isPathAlias,
         resolvedBase |-> resolvedBase,
         baseDir |-> IF isPathAlias THEN resolvedBase ELSE PathJoin(importerDir, patternBase),
         resolvedPattern |->
             IF isPathAlias
             THEN normalizePath(resolvedBase \o SliceFrom(pattern, Len(patternBase)))
             ELSE normalizePath(PathJoin(importerDir, pattern))]

\* the values viteConfig takes
ConfigStates == {NoConfig} \cup { <<config>> : config \in ViteConfigs }

\* ResolveLocals tabulated over the calls, the default directives and the
\* configurations, so that it is computed once per combination
ResolveLocalsTable ==
    { <<call, d, config, ResolveLocals(call[1], call[2], d, config)>> :
        call \in { c \in Calls : StartsWith(c[1], DC_PREFIX) /\ Truthy(c[2]) },
        d \in ConfiguredDirectives, config \in ConfigStates }

LocalsOf(source, importer, defaultDirective, config) ==
    (CHOOSE t \in ResolveLocalsTable :
        t[1] = <<source, importer>> /\ t[2] = defaultDirective /\ t[3] = config)[4]

\* what a finished resolveId call returned: the value, the warning, and
\* the locals and the set of listed files it had computed by then
ResolveResult(source, importer, value, warn, locals, files) ==
    [op |-> "resolveId", source |-> source, importer |-> importer, value |-> value,
     warn |-> warn, locals |-> locals, files |-> files]

\* resolveId(source, importer) up to its suspension at the file matching:
\* it returns null for a foreign specifier, a missing importer or an
\* unresolvable alias, and otherwise suspends with its locals
resolveIdCall(source, importer) ==
    /\ UNCHANGED <<defaultClientDirective, viteConfig, projectRoot, codeCache, returns, synthesized>>
    /\ UNCHANGED fnVars
    /\ IF ~StartsWith(source, DC_PREFIX)
       THEN /\ result' = ResolveResult(source, importer, Null, "none", <<>>, {})
            /\ UNCHANGED pending
       ELSE IF ~Truthy(importer)
       THEN /\ result' = ResolveResult(source, importer, Null,
                                       "Cannot resolve without importer", <<>>, {})
            /\ UNCHANGED pending
       ELSE LET locals == LocalsOf(source, importer, defaultClientDirective, viteConfig)
            IN  IF locals.isPathAlias /\ ~Truthy(locals.resolvedBase)
                THEN /\ result' = ResolveResult(source, importer, Null,
                                                "Cannot resolve path alias", <<locals>>, {})
                     /\ UNCHANGED pending
                ELSE /\ BagCardinality(pending) < MaxInFlight
                     /\ pending' = pending (+) SetToBag({locals})
                     /\ UNCHANGED result

\* has(virtualFilePath) of the code cache
CacheHas(cache, id) == id \in DOMAIN cache

\* mutant: the code is generated and stored on every resolution
CacheMiss_always(cache, id) == TRUE

\* !codeCache.has(virtualFilePath): the code is generated and stored
CacheMiss(cache, id) == ~CacheHas(cache, id)

\* mutant: storing an entry drops the entries of the other identities
CacheSet_evicting(cache, id, code) == [k \in {id} |-> code]

\* codeCache.set(virtualFilePath, code)
CacheSet(cache, id, code) ==
    [k \in DOMAIN cache \cup {id} |-> IF k = id THEN code ELSE cache[k]]

\* the code cache after the `if (!codeCache.has(virtualFilePath))` block
CacheStore(cache, id, code) ==
    IF CacheMiss(cache, id) THEN CacheSet(cache, id, code) ELSE cache

\* what resolveId computes from the listed files before it looks into the
\* cache: the virtual file path and the code it would generate
Resolved(locals, files, root) ==
    LET srcDirAbsolute == PathResolve(root, SrcDir)
        hash == FilesHash(files, srcDirAbsolute)
        components == Map(LAMBDA filePath : Component(filePath, locals.baseDir), files)
    IN  [virtualFilePath |-> VirtualFilePath(root, hash),
         code |-> generateVirtualAstroComponent(locals.pattern, locals.baseDir,
                      locals.clientDirective, components, locals.isPathAlias, srcDirAbsolute)]

\* the values projectRoot takes
Roots == {Cwd} \cup { config.root : config \in ViteConfigs }

\* Resolved tabulated over the suspended calls, the listings and the roots
ResolvedTable ==
    { <<t[4], files, root, Resolved(t[4], files, root)>> :
        t \in { u \in ResolveLocalsTable : ~u[4].isPathAlias \/ Truthy(u[4].resolvedBase) },
        files \in UNION { Listings(fs) : fs \in SUBSET FileSystem },
        root \in Roots }

ResolvedOf(locals, files, root) ==
    (CHOOSE t \in ResolvedTable : t[1] = locals /\ t[2] = files /\ t[3] = root)[4]

\* mutant: the check for an empty match is missing
NoFilesMatched_never(files) == FALSE

\* files.length === 0
NoFilesMatched(files) == Len(files) = 0

\* the rest of resolveId, run when the file matching delivers its list
resolveIdResume(locals, files) ==
    /\ BagIn(locals, pending)
    /\ Range(files) = Matched(locals.resolvedPattern)
    /\ pending' = pending (-) SetToBag({locals})
    /\ UNCHANGED <<defaultClientDirective, viteConfig, projectRoot>>
    /\ UNCHANGED fnVars
    /\ IF NoFilesMatched(files)
       THEN /\ result' = ResolveResult(locals.source, locals.importer, Null,
                                       "No files matched", <<locals>>, Range(files))
            /\ UNCHANGED <<codeCache, returns, synthesized>>
       ELSE LET r == ResolvedOf(locals, files, projectRoot)
                id == r.virtualFilePath
            IN  /\ codeCache' = CacheStore(codeCache, id, r.code)
                /\ synthesized' =
                       IF CacheMiss(codeCache, id)
                       THEN [k \in DOMAIN synthesized \cup {id} |->
                               IF k = id
                               THEN (IF k \in DOMAIN synthesized THEN synthesized[k] ELSE 0) + 1
                               ELSE synthesized[k]]
                       ELSE synthesized
                /\ result' = ResolveResult(locals.source, locals.importer, id, "none",
                                           <<locals>>, Range(files))
                /\ returns' = returns \cup
                       {[clientDirective |-> locals.clientDirective,
                         files |-> Range(files), id |-> id]}

\* mutant: every module id is taken for a generated virtual file
IsVirtualFileName_any(id) == TRUE

\* fileName.startsWith('_virtual_dc_') && fileName.endsWith('.astro')
IsVirtualFileName(id) ==
    /\ StartsWith(PathBasename(id), <<"_","v","i","r","t","u","a","l","_","d","c","_">>)
    /\ EndsWith(PathBasename(id), <<".","a","s","t","r","o">>)

\* what load(id) returns and whether it warns, for a given cache; the
\* returned code is kept as a one-element list, null as the empty list
LoadOutcome(cache, id) ==
    IF ~IsVirtualFileName(id)
    THEN [value |-> <<>>, warn |-> "none"]
    ELSE IF CacheHas(cache, id)
    THEN [value |-> <<cache[id]>>, warn |-> "none"]
    ELSE [value |-> <<>>, warn |-> "Code not found in cache"]

\* load(id)
load(id) ==
    /\ result' = [op |-> "load", id |-> id,
                  value |-> LoadOutcome(codeCache, id).value,
                  warn |-> LoadOutcome(codeCache, id).warn]
    /\ UNCHANGED <<defaultClientDirective, viteConfig, projectRoot, codeCache, pending,
                   returns, synthesized>>
    /\ UNCHANGED fnVars

Next ==
    \/ \E config \in ViteConfigs : configResolved(config)
    \/ \E call \in Calls : resolveIdCall(call[1], call[2])
    \/ \E locals \in BagToSet(pending) :
         \E files \in Listings(Matched(locals.resolvedPattern)) : resolveIdResume(locals, files)
    \/ \E id \in LoadIds : load(id)

Spec == Init /\ [][Next]_vars

(***************************************************************************)
(* parseDcImport applied on its own                                        *)
(***************************************************************************)

InitParse ==
    /\ InitPlugin(DefaultDirectives)
    /\ \E k \in ParseKeywords, p \in ParsePatterns :
         fnInput = [fn |-> "parseDcImport", keyword |-> k, pattern |-> p,
                    source |-> DC_PREFIX \o k \o <<":">> \o p]
    /\ fnOutput = <<>>

applyParseDcImport ==
    /\ fnInput.fn = "parseDcImport"
    /\ fnOutput = <<>>
    /\ fnOutput' = <<parseDcImport(fnInput.source, defaultClientDirective)>>
    /\ UNCHANGED <<fnInput, pluginVars>>

NextParse == applyParseDcImport

SpecParse == InitParse /\ [][NextParse]_vars

(***************************************************************************)
(* The pure functions applied on their own                                 *)
(***************************************************************************)

\* the directive segments the parser is given: the empty one, and
\* key=value segments with one, two and a trailing equals sign
ParseSegments == { <<>>, <<"o","n","l","y","=","v","u","e">>, <<"o","n","l","y","=","a","=","b">>, <<"o","n","l","y","=">> }

\* the specifiers the parser is applied to: the prefix and a pattern (no
\* directive segment), or the prefix, a segment, a colon and a pattern
ParseInputs ==
    { [fn |-> "parseDcImport", form |-> "bare", segment |-> <<>>, pattern |-> p,
       source |-> DC_PREFIX \o p] : p \in ParsePatterns }
    \cup
    { [fn |-> "parseDcImport", form |-> "segment", segment |-> sp[1], pattern |-> sp[2],
       source |-> DC_PREFIX \o sp[1] \o <<":">> \o sp[2]] :
         sp \in ParseSegments \X ParsePatterns }

\* the patterns getGlobBase is applied to
GlobPatterns ==
    { <<".","/","a","/","b","/","*",".","v","u","e">>, <<"*",".","v","u","e">>, <<"/","x","/","*",".","v","u","e">>, <<".","/","c","/","?","/","*",".","v","u","e">>, <<"a","/","[","b","c","]","/","*",".","v","u","e">>,
      <<".","/","c","/","{","a",",","b","}",".","v","u","e">>, <<".","/","c","/","A",".","v","u","e">>, <<"p","l","a","i","n">>,
      <<"@","/","c","/","*",".","*">>, <<"a","*","/","b","/","c">>, <<".","/","a","/","b","*","/","c","/","d",".","v","u","e">> }

GlobBaseInputs == { [fn |-> "getGlobBase", pattern |-> p] : p \in GlobPatterns }

\* the values of viteConfig resolveAlias is given: none, and alias tables
\* with overlapping entries in both orders, an entry with an empty find,
\* and no entry
AliasConfigs ==
    { NoConfig,
      << [root |-> <<"/","p">>, alias |-> << [find |-> <<"@">>, replacement |-> <<"/","p","/","s","r","c">>],
                                      [find |-> <<"@","/","c">>, replacement |-> <<"/","p","/","o">>] >>] >>,
      << [root |-> <<"/","p">>, alias |-> << [find |-> <<"@","/","c">>, replacement |-> <<"/","p","/","o">>],
                                      [find |-> <<"@">>, replacement |-> <<"/","p","/","s","r","c">>] >>] >>,
      << [root |-> <<"/","p">>, alias |-> << [find |-> <<>>, replacement |-> <<"/","e">>],
                                      [find |-> <<"@">>, replacement |-> <<"/","p","/","s","r","c">>] >>] >>,
      << [root |-> <<"/","p">>, alias |-> << >>] >> }

\* the results of getTsconfig(cwd) resolveAlias is given: none, a file
\* without baseUrl whose first mapping has two targets, and a file with a
\* baseUrl whose first mapping has no target
AliasTsConfigs ==
    { <<>>,
      << [path |-> <<"/","p","/","t","s","c","o","n","f","i","g",".","j","s","o","n">>, baseUrl |-> <<>>,
          paths |-> << [pattern |-> <<"@","/","*">>, mappings |-> << <<"l","i","b","/","*">>, <<"a","l","t","/","*">> >>],
                       [pattern |-> <<"~","/","*">>, mappings |-> << <<"l","i","b","/","*">> >>] >>] >>,
      << [path |-> <<"/","p","/","t","s","c","o","n","f","i","g",".","j","s","o","n">>, baseUrl |-> <<"b">>,
          paths |-> << [pattern |-> <<"~","/","*">>, mappings |-> << >>],
                       [pattern |-> <<"~","/","c","/","*">>, mappings |-> << <<"t","/","*">> >>] >>] >> }

\* the alias paths resolveAlias is given
AliasPaths == { <<"@","/","c","/","x">>, <<"~","/","c">>, <<"#","/","z">>, <<"@">> }

AliasInputs ==
    { [fn |-> "resolveAlias", aliasPath |-> t[1], config |-> t[2], tsconfig |-> t[3]] :
        t \in AliasPaths \X AliasConfigs \X AliasTsConfigs }

\* the patterns whose module is generated on its own, imported from one
\* file: alias patterns and a relative one
GeneratePatterns == { <<"@","/","c","/","*",".","*">>, <<"@","/","c","/","A",".","*">>, <<"@","/","*","/","*",".","*">>, <<"@","/","c","/","?",".","v","u","e">>, <<".","/","c","/","*",".","*">> }

GenerateImporter == <<"/","p","/","s","r","c","/","x",".","a","s","t","r","o">>

\* a pattern under a resolved configuration, with the files the matcher
\* lists for it in every order
GenerateInputs ==
    UNION { { [fn |-> "generateVirtualAstroComponent", pattern |-> pc[1],
               source |-> <<"d","c",":","l","o","a","d",":">> \o pc[1], importer |-> GenerateImporter,
               config |-> <<pc[2]>>, files |-> l] :
                l \in { k \in Listings(Matched(ResolveLocals(<<"d","c",":","l","o","a","d",":">> \o pc[1],
                            GenerateImporter, <<"l","o","a","d">>, <<pc[2]>>).resolvedPattern)) :
                          Len(k) > 0 } } :
            pc \in GeneratePatterns \X ViteConfigs }

FnInputs == ParseInputs \cup GlobBaseInputs \cup AliasInputs \cup GenerateInputs

InitFn ==
    /\ InitPlugin(DefaultDirectives)
    /\ fnInput \in FnInputs
    /\ fnOutput = <<>>

applyGetGlobBase ==
    /\ fnInput.fn = "getGlobBase"
    /\ fnOutput = <<>>
    /\ fnOutput' = <<getGlobBase(fnInput.pattern)>>
    /\ UNCHANGED <<fnInput, pluginVars>>

applyResolveAlias ==
    /\ fnInput.fn = "resolveAlias"
    /\ fnOutput = <<>>
    /\ fnOutput' = <<resolveAlias(fnInput.aliasPath, fnInput.config, fnInput.tsconfig)>>
    /\ UNCHANGED <<fnInput, pluginVars>>

\* generateVirtualAstroComponent with the arguments resolveId computes for
\* the pattern and the listed files
applyGenerateVirtualAstroComponent ==
    /\ fnInput.fn = "generateVirtualAstroComponent"
    /\ fnOutput = <<>>
    /\ LET locals == ResolveLocals(fnInput.source, fnInput.importer,
                                   defaultClientDirective, fnInput.config)
       IN  fnOutput' = <<[locals |-> locals,
                          code |-> Resolved(locals, fnInput.files, projectRoot).code]>>
    /\ UNCHANGED <<fnInput, pluginVars>>

NextFn ==
    \/ applyParseDcImport
    \/ applyGetGlobBase
    \/ applyResolveAlias
    \/ applyGenerateVirtualAstroComponent

SpecFn == InitFn /\ [][NextFn]_vars

(***************************************************************************)
(* Properties                                                              *)
(***************************************************************************)

\* a finished resolveId call that returned a virtual identity
Succeeded(r) == r.op = "resolveId" /\ r.value # Null

\* the conditional renders of the code cached for an identity
Branches(id) == codeCache[id].conditionalRenders

\* C1: two successful resolveId calls whose matched file sets are equal and
\* whose directives are equal return the same virtual identity, whatever the
\* listing order, the importer and the pattern form
C1_SameFilesSameIdentity ==
    \A r1, r2 \in returns :
        (r1.files = r2.files /\ r1.clientDirective = r2.clientDirective) => r1.id = r2.id

\* an alias pattern resolved to the identity that a relative pattern with
\* the same directive had cached from a listing that was not in sorted order
C1_Witness ==
    /\ Succeeded(result)
    /\ result.locals[1].isPathAlias
    /\ CacheHas(codeCache, result.value)
    /\ StartsWith(codeCache[result.value].imports[1].importPath, <<".",".","/">>)
    /\ EndsWith(codeCache[result.value].imports[1].importPath, <<".","v","u","e">>)
    /\ Branches(result.value)[1].clientAttr = <<" ">> \o result.locals[1].clientDirective
    /\ \E r \in returns : r.id = result.value /\ Cardinality(r.files) = 2

\* C2 (as claimed): two successful resolveId calls from different importers
\* with identical match sets and different directives return two distinct
\* virtual identities
C2_DistinctDirectivesDistinctIdentities ==
    [][(/\ Succeeded(result) /\ Succeeded(result')
        /\ result.importer # result'.importer
        /\ result.files = result'.files
        /\ result.locals[1].clientDirective # result'.locals[1].clientDirective)
       => result.value # result'.value]_vars

\* C3: once resolveId has returned an identity, load of that identity
\* returns source text, after any further resolveId and load calls
C3_ReturnedIdentityStaysLoadable ==
    /\ \A r \in returns : LoadOutcome(codeCache, r.id).value # <<>>
    /\ (result.op = "load" /\ \E r \in returns : r.id = result.id) => result.value # <<>>

\* a load was served for a returned identity while two identities are cached
C3_Witness ==
    /\ result.op = "load"
    /\ \E r \in returns : r.id = result.id
    /\ result.value = <<codeCache[result.id]>>
    /\ Cardinality(DOMAIN codeCache) >= 2

\* C4: under any interleaving of resolveId calls, code is generated at most
\* once per virtual identity and the code stored for an identity never
\* changes afterwards
C4_SynthesizedOnceNeverOverwritten ==
    [][/\ \A id \in DOMAIN codeCache :
            id \in DOMAIN codeCache' /\ codeCache'[id] = codeCache[id]
       /\ \A id \in DOMAIN synthesized' : synthesized'[id] <= 1]_vars

\* a call returned an identity whose cached code carries another directive
\* than the call's own, while a further call is still suspended
C4_Witness ==
    /\ Succeeded(result)
    /\ synthesized[result.value] = 1
    /\ Truthy(result.locals[1].clientDirective)
    /\ \E j \in DOMAIN Branches(result.value) :
         /\ Branches(result.value)[j].clientAttr # <<>>
         /\ Branches(result.value)[j].clientAttr # <<" ">> \o result.locals[1].clientDirective
    /\ BagCardinality(pending) >= 1

\* a finished resolveId call on a prefixed specifier that had no importer,
\* an alias that did not resolve, or a pattern that matched no file
FailingCall(r) ==
    /\ r.op = "resolveId"
    /\ StartsWith(r.source, DC_PREFIX)
    /\ \/ ~Truthy(r.importer)
       \/ Len(r.locals) = 1 /\ r.locals[1].isPathAlias /\ r.locals[1].resolvedBase = Null
       \/ Len(r.locals) = 1 /\ r.files = {}

\* C5: such a call returns null with a warning, and a call that returns null
\* leaves the cache as it was
C5_FailureReturnsNullKeepsCache ==
    [][/\ FailingCall(result') => (result'.value = Null /\ result'.warn # "none")
       /\ (result'.op = "resolveId" /\ result'.value = Null)
            => UNCHANGED <<codeCache, synthesized, returns>>]_vars

\* a pattern matched no file after another specifier's code had been cached
C5_Witness ==
    /\ FailingCall(result)
    /\ Len(result.locals) = 1 /\ ~result.locals[1].isPathAlias /\ result.files = {}
    /\ result.value = Null
    /\ DOMAIN codeCache # {}

\* the file name of a module id has the form of a generated virtual file
LooksVirtual(id) ==
    LET slash == LastIndexOf(id, "/")
        name == SliceFrom(id, slash + 1)
    IN  /\ Len(name) >= 12 /\ SubSeq(name, 1, 12) = <<"_","v","i","r","t","u","a","l","_","d","c","_">>
        /\ Len(name) >= 6 /\ SubSeq(name, Len(name) - 5, Len(name)) = <<".","a","s","t","r","o">>

\* C6 (as claimed): load returns the cached code of an identity that is in
\* the cache, and for every identity that is not in the cache it returns
\* null and emits a warning
C6_LoadMissAlwaysWarns ==
    result.op = "load" =>
        IF result.id \in DOMAIN codeCache
        THEN result.value = <<codeCache[result.id]>>
        ELSE result.value = <<>> /\ result.warn # "none"

\* C6 (amended): load returns the cached code of an identity that is in the
\* cache without a warning; for an identity that is not in the cache it
\* returns null, and it warns exactly when the identity's file name starts
\* with _virtual_dc_ and ends with .astro; load never changes the cache
C6_LoadServesCacheWarnsOnVirtualMiss ==
    [][result'.op = "load" =>
        /\ codeCache' = codeCache
        /\ IF result'.id \in DOMAIN codeCache
           THEN result'.value = <<codeCache[result'.id]>> /\ result'.warn = "none"
           ELSE /\ result'.value = <<>>
                /\ (result'.warn # "none") <=> LooksVirtual(result'.id)]_vars

\* a module that is not a virtual file was loaded, while code is cached:
\* null without a warning
C6_Witness ==
    /\ result.op = "load"
    /\ ~LooksVirtual(result.id)
    /\ result.value = <<>> /\ result.warn = "none"
    /\ DOMAIN codeCache # {}

\* C7: in every generated module the conditional render of a component
\* whose file is an .astro file carries no directive attribute
C7_AstroBranchHasNoDirective ==
    \A id \in DOMAIN codeCache :
        \A i \in DOMAIN codeCache[id].imports :
            EndsWith(codeCache[id].imports[i].importPath, <<".","a","s","t","r","o">>) =>
                \A j \in DOMAIN Branches(id) :
                    Branches(id)[j].importName = codeCache[id].imports[i].importName
                        => Branches(id)[j].clientAttr = <<>>

\* a module generated under a directive holds an .astro component without
\* the attribute next to a component that carries it
C7_Witness ==
    \E id \in DOMAIN codeCache :
        /\ \E i \in DOMAIN codeCache[id].imports :
             /\ EndsWith(codeCache[id].imports[i].importPath, <<".","a","s","t","r","o">>)
             /\ Branches(id)[i].clientAttr = <<>>
        /\ \E j \in DOMAIN Branches(id) : Branches(id)[j].clientAttr = <<" ","c","l","i","e","n","t",":","i","d","l","e">>

\* C8 (as claimed): in every generated module each matched file has a
\* conditional render and no two renders share a displayName, so that a
\* displayName makes exactly one render true
C8_DisplayNameSelectsOneBranch ==
    \A id \in DOMAIN codeCache :
        /\ \A r \in returns : r.id = id => Len(Branches(id)) = Cardinality(r.files)
        /\ \A i \in DOMAIN Branches(id) :
             Cardinality({ j \in DOMAIN Branches(id) :
                             Branches(id)[j].compName = Branches(id)[i].compName }) = 1

\* C9 (as claimed): the code served for the identity a resolveId call
\* returned has, for each file the call matched, a conditional render whose
\* displayName is the file's path relative to the glob base of the call's
\* own pattern, extension stripped
C9_ServedNamesFollowOwnPattern ==
    Succeeded(result) =>
        \A f \in result.files :
            \E j \in DOMAIN Branches(result.value) :
                Branches(result.value)[j].compName =
                    StripExtension(normalizePath(PathRelative(result.locals[1].baseDir, f)))

\* the pattern begins like a path: with "/", "./", "../", a letter or "@"
BeginsLikePath(p) ==
    /\ Len(p) >= 1
    /\ \/ p[1] = "/"
       \/ p[1] \in Letters \cup {"@"}
       \/ Len(p) >= 2 /\ p[1] = "." /\ p[2] = "/"
       \/ Len(p) >= 3 /\ p[1] = "." /\ p[2] = "." /\ p[3] = "/"

\* C10 (as claimed): for every specifier prefix + keyword K + ":" + pattern
\* P, parseDcImport returns the directive client:K and the pattern P
C10_KeywordAndPatternSplit ==
    (fnInput.fn = "parseDcImport" /\ Len(fnOutput) = 1) =>
        /\ fnOutput[1].clientDirective = <<"c","l","i","e","n","t",":">> \o fnInput.keyword
        /\ fnOutput[1].pattern = fnInput.pattern

\* C10 (amended): this holds when P begins with "/", "./", "../", a letter
\* or "@"
C10_KeywordAndPathPatternSplit ==
    (fnInput.fn = "parseDcImport" /\ Len(fnOutput) = 1 /\ BeginsLikePath(fnInput.pattern)) =>
        /\ fnOutput[1].clientDirective = <<"c","l","i","e","n","t",":">> \o fnInput.keyword
        /\ fnOutput[1].pattern = fnInput.pattern

\* a pattern with a colon of its own was split off at the second colon of
\* the specifier, under a default directive that differs from the keyword
C10_Witness ==
    /\ fnInput.fn = "parseDcImport" /\ Len(fnOutput) = 1
    /\ fnInput.pattern = <<".","/","a",":","b","/","*",".","v","u","e">>
    /\ fnInput.keyword = <<"v","i","s","i","b","l","e">>
    /\ fnOutput[1].pattern = fnInput.pattern
    /\ fnOutput[1].clientDirective = <<"c","l","i","e","n","t",":","v","i","s","i","b","l","e">>

\* a finished application of parseDcImport to a specifier of the given form
Parsed(form) ==
    /\ fnInput.fn = "parseDcImport"
    /\ Len(fnOutput) = 1
    /\ fnInput.form = form

\* C11: for every specifier that has no directive segment (no colon after
\* the prefix), parseDcImport returns client: followed by the configured
\* default directive, and the whole remainder after the prefix as pattern
C11_NoSegmentUsesConfiguredDefault ==
    (Parsed("bare") /\ \A i \in 1..Len(fnInput.pattern) : fnInput.pattern[i] # ":") =>
        /\ fnOutput[1].clientDirective = <<"c","l","i","e","n","t",":">> \o defaultClientDirective
        /\ fnOutput[1].pattern = fnInput.pattern
        /\ fnOutput[1].pattern = SubSeq(fnInput.source, 4, Len(fnInput.source))

\* a bare glob was parsed under the configured default idle
C11_Witness ==
    /\ Parsed("bare")
    /\ defaultClientDirective = <<"i","d","l","e">>
    /\ fnInput.source = <<"d","c",":",".",".","/","c","/","*",".","v","u","e">>
    /\ fnOutput[1] = [clientDirective |-> <<"c","l","i","e","n","t",":","i","d","l","e">>, pattern |-> <<".",".","/","c","/","*",".","v","u","e">>]

\* C12 (as claimed): for every specifier with an empty directive segment
\* (the prefix, a colon and the pattern), parseDcImport returns a null
\* directive, whatever the configured default directive is
C12_EmptySegmentGivesNull ==
    (Parsed("segment") /\ fnInput.segment = <<>>) =>
        fnOutput[1].clientDirective = Null

\* C12 (amended): this holds when the pattern begins with "/", "./", "../",
\* a letter or "@"; the pattern is then returned unchanged
C12_EmptySegmentBeforePathGivesNull ==
    (Parsed("segment") /\ fnInput.segment = <<>> /\ BeginsLikePath(fnInput.pattern)) =>
        /\ fnOutput[1].clientDirective = Null
        /\ fnOutput[1].pattern = fnInput.pattern

\* an empty segment before an alias pattern was parsed to the null
\* directive under the configured default idle
C12_Witness ==
    /\ Parsed("segment")
    /\ defaultClientDirective = <<"i","d","l","e">>
    /\ fnInput.source = <<"d","c",":",":","@","/","c","/","*",".","v","u","e">>
    /\ fnOutput[1] = [clientDirective |-> Null, pattern |-> <<"@","/","c","/","*",".","v","u","e">>]

\* C13: for every directive segment that contains an equals sign (before a
\* pattern that begins like a path), parseDcImport returns client:key="value"
\* where key is the text before the first equals sign and value the whole
\* text after it, further equals signs included
C13_KeyValueSplitOnceAtFirstEquals ==
    (/\ Parsed("segment")
     /\ \E i \in 1..Len(fnInput.segment) : fnInput.segment[i] = "="
     /\ BeginsLikePath(fnInput.pattern)) =>
        LET seg == fnInput.segment
            e == CHOOSE i \in 1..Len(seg) :
                    seg[i] = "=" /\ \A j \in 1..(i - 1) : seg[j] # "="
        IN  fnOutput[1].clientDirective =
                <<"c","l","i","e","n","t",":">> \o SubSeq(seg, 1, e - 1) \o <<"=", "\"">>
                    \o SubSeq(seg, e + 1, Len(seg)) \o <<"\"">>

\* a finished generation of the module of an alias pattern
GeneratedForAlias ==
    /\ fnInput.fn = "generateVirtualAstroComponent"
    /\ Len(fnOutput) = 1
    /\ fnInput.pattern[1] = "@"

\* C14: for every alias pattern and every matched file, the generated
\* import path is the glob base of the pattern (in alias form), a slash and
\* the path of the file relative to the resolved alias base, and resolving
\* the alias in the import path yields the absolute path of the file
C14_AliasImportPathResolvesToFile ==
    GeneratedForAlias =>
        \A i \in 1..Len(fnInput.files) :
            LET importPath == fnOutput[1].code.imports[i].importPath
                file == fnInput.files[i]
            IN  /\ importPath = getGlobBase(fnInput.pattern) \o <<"/">>
                                  \o PathRelative(fnOutput[1].locals.resolvedBase, file)
                /\ resolveAlias(importPath, fnInput.config, TsConfig) = file

\* a finished application of resolveAlias
AliasResolved ==
    /\ fnInput.fn = "resolveAlias"
    /\ Len(fnOutput) = 1

\* the least element of a nonempty set of indices
Least(S) == CHOOSE x \in S : \A y \in S : x <= y

\* C15: resolveAlias returns the substitution of the first entry of the
\* build-tool alias table whose (nonempty) find is a literal prefix of the
\* path; only when there is no such entry does it take the first entry of
\* the path-mapping file whose stripped key starts the path and that has a
\* target, replace the key by the stripped first target and resolve the
\* result against the base directory of the mapping file; it returns null
\* exactly when neither tier has such an entry
C15_TwoTierFirstMatchWins ==
    AliasResolved =>
        LET aliasPath == fnInput.aliasPath
            out == fnOutput[1]
            table == IF fnInput.config = NoConfig THEN <<>> ELSE fnInput.config[1].alias
            paths == IF fnInput.tsconfig = <<>> THEN <<>> ELSE fnInput.tsconfig[1].paths
            M1 == { i \in 1..Len(table) :
                      table[i].find # <<>> /\ StartsWith(aliasPath, table[i].find) }
            M2 == { j \in 1..Len(paths) :
                      /\ StartsWith(aliasPath, StripTrailingStar(paths[j].pattern))
                      /\ Len(paths[j].mappings) > 0 }
        IN  /\ M1 # {} =>
                 LET a == table[Least(M1)]
                 IN  out = a.replacement \o SubSeq(aliasPath, Len(a.find) + 1, Len(aliasPath))
            /\ (M1 = {} /\ M2 # {}) =>
                 LET ts == fnInput.tsconfig[1]
                     m == paths[Least(M2)]
                     key == StripTrailingStar(m.pattern)
                     base == PathResolve(PathDirname(ts.path),
                                         IF ts.baseUrl = <<>> THEN <<".">> ELSE ts.baseUrl)
                 IN  out = PathResolve(base, StripTrailingStar(m.mappings[1])
                                 \o SubSeq(aliasPath, Len(key) + 1, Len(aliasPath)))
            /\ (out = Null) <=> (M1 = {} /\ M2 = {})

\* a path that two entries of the alias table and an entry of the
\* path-mapping file match was resolved by the first entry of the table
C15_Witness ==
    /\ AliasResolved
    /\ fnInput.aliasPath = <<"@","/","c","/","x">>
    /\ Len(fnInput.config) = 1
    /\ Len(fnInput.config[1].alias) = 2
    /\ fnInput.config[1].alias[1].find = <<"@","/","c">>
    /\ fnInput.config[1].alias[2].find = <<"@">>
    /\ Len(fnInput.tsconfig) = 1
    /\ fnInput.tsconfig[1].paths[1].pattern = <<"@","/","*">>
    /\ fnOutput[1] = <<"/","p","/","o","/","x">>

\* a finished application of getGlobBase
GlobBaseTaken ==
    /\ fnInput.fn = "getGlobBase"
    /\ Len(fnOutput) = 1

\* the greatest element of a nonempty set of indices
Greatest(S) == CHOOSE x \in S : \A y \in S : y <= x

\* C16: for every pattern, getGlobBase returns the part of the literal
\* prefix (the text before the first star, question mark, opening bracket
\* or opening brace) that precedes the last slash of that prefix, and a
\* single dot when the literal prefix has no slash; the glob base of
\* ./a/b/*.vue is ./a/b and the glob base of *.vue is the dot
C16_GlobBaseIsLiteralPrefixDirectory ==
    GlobBaseTaken =>
        LET p == fnInput.pattern
            out == fnOutput[1]
            special == { i \in 1..Len(p) : p[i] \in {"*", "?", "[", "{"} }
            n == IF special = {} THEN Len(p) ELSE Least(special) - 1
            slashes == { i \in 1..n : p[i] = "/" }
        IN  /\ slashes = {} => out = <<".">>
            /\ slashes # {} => out = SubSeq(p, 1, Greatest(slashes) - 1)
            /\ p = <<".","/","a","/","b","/","*",".","v","u","e">> => out = <<".","/","a","/","b">>
            /\ p = <<"*",".","v","u","e">> => out = <<".">>

\* the base of a pattern whose first special character is a question mark
\* in a directory name, before a star, was taken
C16_Witness ==
    /\ GlobBaseTaken
    /\ fnInput.pattern = <<".","/","c","/","?","/","*",".","v","u","e">>
    /\ fnOutput[1] = <<".","/","c">>

====
